---- MODULE Spec2Model ----
(***************************************************************************)
(* A model of spark's BuildProcessExecutor                                 *)
(* (src/spark/builder/BuildProcessExecutor.py): the process pool that      *)
(* queues subcommands, starts them under a load-aware ceiling, reaps them  *)
(* through the as_completed() generator and redirects the process-wide     *)
(* output into the tee helper for the duration of a `with` scope.          *)
(*                                                                         *)
(* A subcommand is identified by its submission index (the k-th submit()   *)
(* enqueues k); a child's pid is the index of the Popen() call that made   *)
(* it.  The deque is a sequence whose index 1 is the LEFT end, so          *)
(* appendleft() prepends and pop() takes the last element.                 *)
(***************************************************************************)
EXTENDS Integers, Sequences, FiniteSets

\* ---------------------------------------------------------------- bounds
MaxJobs == 2
MaxSubmit == 3
MaxLoad == 1
MaxScopes == 3
NumKeys == 2
MaxClock == 1
MaxEnv == 1
MaxOps == 3
MaxSessions == 2
NumPairs == 2
MaxChunks == 3

\* ------------------------------------------------------------- constants
\* spark/codes.py: distinct, nonzero exit codes.
EXIT_NO_SUCH_SUBCOMMAND == 3
EXIT_SUBCOMMAND_FAILED == 4
EXIT_SPARKFILE_UNAVAILABLE == 2

\* spark/cache/crypto.py, SIGNATURE_SIZE_BYTES: the size open() slices a stored
\* file at.
SIGNATURE_SIZE_BYTES == 512

\* crypto.generate_key_pair(): key_size, in bits.
KEY_SIZE == 4096
LogBufferSize == 8192

\* SPARK_BUILD_DECLARATION_FILES: four sources, in the order they are merged;
\* Spark.toml is the last.
NumSources == 4
SparkToml == 4

\* Raw wait statuses os.waitpid() can return for a child: exit(0), exit(1)
\* and "killed by signal 9".
WaitStatuses == {0, 256, 9}

VARIABLES
    total,        \* self.total
    jobs,         \* self.jobs
    load_average, \* self.load_average (the threshold)
    running_jobs, \* self.running_jobs
    counter,      \* self.counter
    subcommands,  \* self.subcommands (deque; index 1 is the left end)
    processes,    \* keys of self.processes (pids of tracked children)
    tee,          \* self.tee: "none" | "running" | "exited"
    fds,          \* where fd 1 / fd 2 point: "orig" | "tee"
    pc,           \* caller position: "constructed" | "body" | "exit_start"
                  \*   | "exit_drain" | "left" | "terminated" | "blocked"
                  \*   (in shutdown(), waiting for tee for ever)
    exc,          \* exception in flight / that left the scope
    exitCode,     \* code the process terminated with (0 while alive)
    gen,          \* the caller's as_completed() generator: "none" | "started"
                  \*   (inside its first next()) | "suspended" (at the yield)
                  \*   | "done" (returned) | "failed" (an exception escaped)
    nsubmitted,   \* history: number of submit() calls
    launched,     \* history: subcommand of each Popen() call, in call order
    failed,       \* history: pids (Popen calls) that raised OSError
    lines,        \* history: progress lines printed, <<counter, total, cmd>>
    yielded,      \* history: pairs yielded by as_completed(), <<pid, code>>
    discarded,    \* history: subcommands dropped by shutdown()
    sample,       \* <<loadavg>> read by the start() of the last step, or <<>>
    usage,        \* history of the caller: "submits" (nothing but submit() so
                  \*   far) | "iter" (submits, then one as_completed()) | "other"
    shut,         \* history: the caller has called shutdown()
    stdout_tty    \* sys.stdout.line_buffering (stdout was a terminal when the
                  \*   interpreter started): "yes" | "no" | "unknown" until a
                  \*   print() first depends on it

vars == <<total, jobs, load_average, running_jobs, counter, subcommands,
          processes, tee, fds, pc, exc, exitCode, gen, nsubmitted, launched,
          failed, lines, yielded, discarded, sample, usage, shut, stdout_tty>>

\* Several executors in one process, each with its own scope.
VARIABLES
    scope_pc,      \* per executor: "none" (not constructed) | "constructed"
                   \*   | "entered" | "left" | "raised" (its __exit__ raised)
                   \*   | "blocked" (its __exit__ waits for tee for ever)
    scope_streams, \* per executor: self.streams, what the saved duplicates
                   \*   point at: 0 (the original stdout/stderr) or a tee's pipe
    scope_tee,     \* per executor: self.tee: "none" | "running" | "exited"
    stdout_fd      \* where fd 1 / fd 2 point: 0 (original) or i (the pipe
                   \*   into executor i's tee)

scopeVars == <<scope_pc, scope_streams, scope_tee, stdout_fd>>

\* One reaping turn of as_completed() over every wait status.
VARIABLES
    reaped_status, \* <<status>> returned by os.waitpid(-1, 0), <<>> before it
    reaped_result  \* result, the pair yielded, <<>> before it is built

waitVars == <<reaped_status, reaped_result>>

\* SparkCacheFile, its files and the key store.
VARIABLES
    declarations,    \* per source 1..NumSources: <<>> (no such file) or
                     \*   <<mtime, content>>, content a mapping key -> value
                     \*   (0: the key is not set)
    cache_file,      \* the cache file: <<>> (no such file) or <<mtime, bytes>>
    public_key_file, \* the public-key file: 0 (no such file) or the key
                     \*   pair k whose public key it holds
    keyring,         \* the key store's entry: 0 (none) or the key pair k whose
                     \*   private key it holds
    clock,           \* the time, in mtime granules
    keys_made,       \* number of key pairs generated so far
    cache,           \* self.cache (bytes)
    clear,           \* self.clear
    signature,       \* self.signature (bytes)
    public_key_bytes,\* self.public_key_bytes: 0 (b'') or key pair k
    opened,          \* self.opened
    cache_pc,        \* the caller: "none" (no object) | "new" (constructed)
                     \*   | "open" | "exiting" (an exception is leaving the
                     \*   `with` body) | "closed" | "terminated"
    scoped,          \* the object is used through `with`: "yes" | "no"
                     \*   | "unknown" until something first depends on it
    cache_exit,      \* code the process terminated with (0 while alive)
    op,              \* the operation of the last step
    arg,             \* its argument: <<data>>, <<size, offset>> or <<>>
    ret,             \* what it returned: <<value>>, or <<>> for None
    raised,          \* the exception it raised, or "none"
    did,             \* the internal calls it made, in order: "regenerate",
                     \*   "sync", "remove"
    expect,          \* history: <<X>> of the last write(X), while neither the
                     \*   caller nor the environment changed anything since
    appended,        \* history: <<S, L, Y, B>> of the last append(Y): size
                     \*   before, returned size, data, payload before
    nops,            \* history: number of operations on cache objects
    nenv,            \* history: number of changes made by the environment
    nsessions,       \* history: number of cache objects constructed
    written          \* history: times this object wrote the cache file

cacheVars == <<declarations, cache_file, public_key_file, keyring, clock,
               keys_made, cache, clear, signature, public_key_bytes, opened,
               cache_pc, scoped, cache_exit, op, arg, ret, raised, did, expect,
               appended, nops, nenv, nsessions, written>>

\* crypto.sign and crypto.verify, called by anyone.
VARIABLES
    crypto_pc,        \* "idle", "signed", "substituted", "verified"
    crypto_payload,   \* the payload at hand
    crypto_signature, \* the signature at hand
    crypto_key,       \* the public key bytes at hand: the pair k whose public
                      \*   key they are, 0 for b'', -1 for bytes that are no key
    crypto_pair,      \* history: <<payload, k>> that sign() was called with
    crypto_result     \* what verify() did: "none" before the call, "True",
                      \*   "False", or the exception it raised

cryptoVars == <<crypto_pc, crypto_payload, crypto_signature, crypto_key,
                crypto_pair, crypto_result>>

\* tee.py, one helper process, its pipe and its log file.
VARIABLES
    tee_pc,       \* "running", "exited" (main returned), "killed"
    tee_stdin,    \* bytes in the pipe, not yet read
    tee_open,     \* the write end of the pipe is open
    tee_stdout,   \* bytes written to the helper's standard output
    tee_buffer,   \* bytes in the log file object's write buffer
    tee_logfile,  \* bytes in the log file on disk
    tee_exit,     \* exit code of the helper, <<>> while it runs
    tee_sent      \* history: the chunks written to the pipe, in order

teeVars == <<tee_pc, tee_stdin, tee_open, tee_stdout, tee_buffer, tee_logfile,
             tee_exit, tee_sent>>

\* What the operations of each part leave alone.
notScheduler == <<scopeVars, waitVars, cacheVars, cryptoVars, teeVars>>
notScopes == <<vars, waitVars, cacheVars, cryptoVars, teeVars>>
notWait == <<vars, scopeVars, cacheVars, cryptoVars, teeVars>>
notCache == <<vars, scopeVars, waitVars, cryptoVars, teeVars>>
notCrypto == <<vars, scopeVars, waitVars, cacheVars, teeVars>>
notTee == <<vars, scopeVars, waitVars, cacheVars, cryptoVars>>

\* ------------------------------------------------------------ pure parts

\* get_recent_load_average(): os.getloadavg()[0], or 0.0 on OSError.
LoadSamples == 0..MaxLoad

\* Faulty variant (C5 must tell it apart): the ceiling ignores the load sample.
RunningJobsIgnoringLoad(loadavg) == jobs

\* start(): self.running_jobs = 1 if loadavg > self.load_average else self.jobs
RunningJobs(loadavg) == IF loadavg > load_average THEN 1 ELSE jobs

\* Faulty variant (C4 must tell it apart): the batch ignores the vacant slots.
AdditionalBuilderJobsUncapped(vacant, available) == available

\* start(): vacant if vacant <= available else available
AdditionalBuilderJobs(vacant, available) ==
    IF vacant <= available THEN vacant ELSE available

\* range(n): the number of loop iterations (none for n <= 0).
RangeLen(n) == IF n > 0 THEN n ELSE 0

\* Faulty variant (C6 must tell it apart): append() at the end pop() takes from.
AppendRight(q, c) == Append(q, c)

\* submit(): self.subcommands.appendleft(subcommand)
AppendLeft(q, c) == <<c>> \o q

\* Faulty variant (C8 must tell it apart): every iteration of a batch reads the
\* same last element.
PoppedNoRemove(q, i) == q[Len(q)]

\* start(): self.subcommands.pop() applied i times: the i-th popped element
\* and the deque left after n pops.
Popped(q, i) == q[Len(q) - i + 1]
AfterPops(q, n) == SubSeq(q, 1, Len(q) - n)

\* Faulty variant (C7 must tell it apart): the counter restarts with each batch.
CounterPerBatch(cnt, pops) == pops

\* start(): self.counter += 1, once per pop
CounterAfter(cnt, pops) == cnt + pops

\* Faulty variant (C14 must tell it apart): the low byte of the status.
ExitCodeLowByte(status) == status % 256

\* as_completed(): status >> 8
ExitCodeOf(status) == status \div 256

\* progress()
progress == <<counter, total>>

\* is_work_complete()
is_work_complete == processes = {} /\ subcommands = <<>>

\* perror(): if code != 0: sys.exit(code)
PerrorExits(code) == code # 0

\* ------------------------------------------------------------- the state

\* The arguments the caller constructs the executor with: a total below or at
\* the number of subcommands it may go on to submit, a job count >= 1, and a
\* load threshold (None, which defaults to the job count, or a given one).
Totals == (MaxSubmit - 1)..MaxSubmit
JobCounts == 1..MaxJobs
LoadThresholds(j) == {j, MaxLoad - 1}

\* __init__(total, jobs, load_average)
Init ==
    /\ total \in Totals
    /\ jobs \in JobCounts
    /\ load_average \in LoadThresholds(jobs)
    /\ running_jobs = jobs
    /\ counter = 0
    /\ subcommands = <<>>
    /\ processes = {}
    /\ tee = "none"
    /\ fds = "orig"
    /\ pc = "constructed"
    /\ exc = "none"
    /\ exitCode = 0
    /\ gen = "none"
    /\ nsubmitted = 0
    /\ launched = <<>>
    /\ failed = {}
    /\ lines = <<>>
    /\ yielded = <<>>
    /\ discarded = {}
    /\ sample = <<>>
    /\ usage = "submits"
    /\ shut = FALSE
    /\ stdout_tty = "unknown"

TypeOK ==
    /\ jobs \in JobCounts
    /\ total \in Totals
    /\ counter \in 0..MaxSubmit
    /\ Len(subcommands) <= MaxSubmit
    /\ tee \in {"none", "running", "exited"}
    /\ fds \in {"orig", "tee"}
    /\ pc \in {"constructed", "body", "exit_start", "exit_drain", "left",
              "terminated", "blocked"}
    /\ exc \in {"none", "ValueError", "Exception", "SystemExit"}
    /\ gen \in {"none", "started", "suspended", "done", "failed"}
    /\ usage \in {"submits", "iter", "other"}
    /\ shut \in BOOLEAN
    /\ stdout_tty \in {"yes", "no", "unknown"}

Elements(q) == {q[i] : i \in 1..Len(q)}

\* The caller holds control (it is not inside a next() of the generator) and the
\* executor is usable: before the scope or in its body.
InCall == pc \in {"constructed", "body"} /\ gen # "started"

\* A write to the redirected stdout/stderr fails with BrokenPipeError once the tee
\* process, the pipe's only reader, has exited.
PipeBroken == tee = "exited" /\ fds = "tee"

\* ------------------------------------------------------------ shutdown()

\* shutdown(): clear the queue; write the sentinel and wait for tee; terminate
\* and wait for every tracked child; clear the table.  The flush of the sentinel
\* raises BrokenPipeError when the pipe has no reader left, and the children are
\* then left as they were.  q, p: the queue and the table it finds.
ShutdownRaises == PipeBroken

\* Faulty variant (C12 must tell it apart): the tracked children are neither
\* terminated nor dropped from the table.
ShutdownKeepsChildren(q, p) ==
    /\ subcommands' = <<>>
    /\ discarded' = discarded \cup Elements(q)
    /\ tee' = IF tee = "running" THEN "exited" ELSE tee
    /\ processes' = p

shutdown(q, p) ==
    /\ subcommands' = <<>>
    /\ discarded' = discarded \cup Elements(q)
    /\ tee' = IF tee = "running" THEN "exited" ELSE tee
    /\ processes' = IF ShutdownRaises THEN p ELSE {}

\* --------------------------------------------------------------- start()

\* The number of loop iterations start() sets out to run with load sample la.
StartBatch(la) ==
    RangeLen(AdditionalBuilderJobs(RunningJobs(la) - Cardinality(processes),
                                   Len(subcommands)))

\* What a start() can meet: every iteration succeeds ("ok"); in the iteration
\* after c successful ones Popen raises OSError ("launch_failure") or rejects the
\* argument list with ValueError ("invalid_subcommand"), or print() raises
\* BrokenPipeError ("print_failure").  print() writes to the line-buffered
\* stdout of a terminal session at once, and to a block-buffered one not at all,
\* so with the pipe broken it fails at the first print or never.
StartOutcomes == {"ok", "launch_failure", "invalid_subcommand", "print_failure"}

\* The exception a start() with this outcome lets escape.  BrokenPipeError is an
\* OSError: it is caught like a launch failure, and perror() then raises it
\* again when it writes its message to the broken (line-buffered) stderr.
StartRaises(outcome) ==
    CASE outcome = "ok" -> "none"
      [] outcome = "print_failure" -> "Exception"
      [] outcome = "invalid_subcommand" -> "ValueError"
      [] outcome = "launch_failure" ->
            IF PipeBroken THEN "Exception"
            ELSE IF PerrorExits(EXIT_NO_SUCH_SUBCOMMAND) THEN "SystemExit"
            ELSE IF ShutdownRaises THEN "Exception" ELSE "none"

\* start() with load sample la, c iterations that complete, and the outcome.
start(la, c, outcome) ==
    IF Cardinality(processes) > jobs
    THEN /\ c = 0 /\ outcome = "ok" /\ la = 0
         /\ sample' = <<>>
         /\ UNCHANGED <<running_jobs, counter, subcommands, processes, tee,
                        launched, failed, lines, discarded, stdout_tty>>
    ELSE LET n == StartBatch(la)
             pops == IF outcome = "ok" THEN c ELSE c + 1
             calls == IF outcome = "print_failure" THEN c ELSE pops
             q1 == AfterPops(subcommands, pops)
             p1 == processes \cup {Len(launched) + i : i \in 1..c}
         IN  /\ IF outcome = "ok" THEN c = n ELSE c < n
             /\ IF PipeBroken /\ n > 0
                THEN IF outcome = "print_failure"
                     THEN c = 0 /\ stdout_tty # "no" /\ stdout_tty' = "yes"
                     ELSE stdout_tty # "yes" /\ stdout_tty' = "no"
                ELSE outcome # "print_failure" /\ UNCHANGED stdout_tty
             /\ sample' = <<la>>
             /\ running_jobs' = RunningJobs(la)
             /\ counter' = CounterAfter(counter, pops)
             /\ lines' = lines \o [i \in 1..calls |->
                                     <<counter + i, total, Popped(subcommands, i)>>]
             /\ launched' = launched \o [i \in 1..calls |-> Popped(subcommands, i)]
             /\ failed' = IF outcome = "launch_failure"
                          THEN failed \cup {Len(launched) + calls} ELSE failed
             /\ IF /\ outcome = "launch_failure"
                   /\ ~PipeBroken
                   /\ ~PerrorExits(EXIT_NO_SUCH_SUBCOMMAND)
                THEN shutdown(q1, p1)
                ELSE /\ subcommands' = q1
                     /\ processes' = p1
                     /\ UNCHANGED <<tee, discarded>>

\* An exception e escaping a call made by the caller: inside the scope it
\* reaches __exit__; outside it ends the process (SystemExit from perror).
Escapes(e) ==
    IF e = "none" THEN UNCHANGED <<pc, exc, exitCode>>
    ELSE IF pc = "body"
         THEN pc' = "exit_start" /\ exc' = e /\ UNCHANGED exitCode
         ELSE /\ pc' = "terminated" /\ exc' = e
              /\ exitCode' = IF e = "SystemExit" THEN EXIT_NO_SUCH_SUBCOMMAND ELSE 1

\* ------------------------------------------------------------ operations

\* __enter__(): launch tee, dup2 its stdin over stdout and stderr.  The caller
\* enters the scope right after construction (`with BuildProcessExecutor(..) as
\* executor:`) or uses the executor without a scope.
Enter ==
    /\ pc = "constructed" /\ gen = "none" /\ nsubmitted = 0 /\ usage = "submits"
    /\ tee' = "running"
    /\ fds' = "tee"
    /\ pc' = "body"
    /\ sample' = <<>>
    /\ UNCHANGED notScheduler
    /\ UNCHANGED <<total, jobs, load_average, running_jobs, counter, subcommands,
                   processes, exc, exitCode, gen, nsubmitted, launched, failed,
                   lines, yielded, discarded, usage, shut, stdout_tty>>

\* submit(subcommand)
Submit ==
    /\ InCall
    /\ nsubmitted < MaxSubmit
    /\ nsubmitted' = nsubmitted + 1
    /\ subcommands' = AppendLeft(subcommands, nsubmitted + 1)
    /\ usage' = IF usage = "submits" THEN "submits" ELSE "other"
    /\ sample' = <<>>
    /\ UNCHANGED notScheduler
    /\ UNCHANGED <<total, jobs, load_average, running_jobs, counter, processes,
                   tee, fds, pc, exc, exitCode, gen, launched, failed, lines,
                   yielded, discarded, shut, stdout_tty>>

\* start(), called by the caller.
Start ==
    /\ InCall
    /\ \E la \in LoadSamples, c \in 0..MaxJobs, outcome \in StartOutcomes :
          /\ start(la, c, outcome)
          /\ Escapes(StartRaises(outcome))
    /\ usage' = "other"
    /\ UNCHANGED notScheduler
    /\ UNCHANGED <<total, jobs, load_average, fds, gen, nsubmitted, yielded, shut>>

\* as_completed() and the first next() on it, up to the wait: self.start().
NextFirst ==
    /\ InCall
    /\ \E la \in LoadSamples, c \in 0..MaxJobs, outcome \in StartOutcomes :
          /\ start(la, c, outcome)
          /\ Escapes(StartRaises(outcome))
          /\ gen' = IF StartRaises(outcome) = "none" THEN "started" ELSE "failed"
          /\ usage' = IF usage = "submits" /\ outcome = "ok" THEN "iter" ELSE "other"
    /\ UNCHANGED notScheduler
    /\ UNCHANGED <<total, jobs, load_average, fds, nsubmitted, yielded, shut>>

\* as_completed(), one turn of `while self.processes`: os.waitpid(-1, 0) returns
\* a tracked child that exited with raw status st; del; yield.
NextReap ==
    /\ pc \in {"constructed", "body"}
    /\ gen \in {"started", "suspended"}
    /\ processes # {}
    /\ \E pid \in processes, st \in WaitStatuses :
          /\ processes' = processes \ {pid}
          /\ yielded' = Append(yielded, <<pid, ExitCodeOf(st)>>)
    /\ gen' = "suspended"
    /\ sample' = <<>>
    /\ UNCHANGED notScheduler
    /\ UNCHANGED <<total, jobs, load_average, running_jobs, counter, subcommands,
                   tee, fds, pc, exc, exitCode, nsubmitted, launched, failed,
                   lines, discarded, usage, shut, stdout_tty>>

\* as_completed(), one turn of the loop in which os.waitpid(-1, 0) returns a
\* child that is not in the table: the tee helper, which ended by itself (its
\* log file could not be opened, or its own stdout was closed).
\* `del self.processes[pid]` raises KeyError, which nothing catches.
NextReapUntracked ==
    /\ pc \in {"constructed", "body"}
    /\ gen \in {"started", "suspended"}
    /\ processes # {}
    /\ tee = "running"
    /\ tee' = "exited"
    /\ gen' = "failed"
    /\ Escapes("Exception")
    /\ usage' = "other"
    /\ sample' = <<>>
    /\ UNCHANGED notScheduler
    /\ UNCHANGED <<total, jobs, load_average, running_jobs, counter, subcommands,
                   processes, fds, nsubmitted, launched, failed, lines, yielded,
                   discarded, shut, stdout_tty>>

\* as_completed(): `while self.processes` finds the table empty; the generator
\* returns and the iteration ends.
NextEnd ==
    /\ pc \in {"constructed", "body"}
    /\ gen \in {"started", "suspended"}
    /\ processes = {}
    /\ gen' = "done"
    /\ sample' = <<>>
    /\ UNCHANGED notScheduler
    /\ UNCHANGED <<total, jobs, load_average, running_jobs, counter, subcommands,
                   processes, tee, fds, pc, exc, exitCode, nsubmitted, launched,
                   failed, lines, yielded, discarded, usage, shut, stdout_tty>>

\* shutdown(), called by the caller.
Shutdown ==
    /\ InCall
    /\ shutdown(subcommands, processes)
    /\ Escapes(IF ShutdownRaises THEN "Exception" ELSE "none")
    /\ usage' = "other"
    /\ shut' = TRUE
    /\ sample' = <<>>
    /\ UNCHANGED notScheduler
    /\ UNCHANGED <<total, jobs, load_average, running_jobs, counter, fds, gen,
                   nsubmitted, launched, failed, lines, yielded, stdout_tty>>

\* The sentinel shutdown() writes may reach tee behind output that does not
\* end in a newline: the children write to the same pipe.  tee then reads one
\* line that is not the sentinel, and self.tee.wait() never returns.
SentinelMayBeMissed ==
    /\ tee = "running" /\ fds = "tee"
    /\ Len(launched) > Cardinality(failed)

\* shutdown(), called by the caller, when tee misses the sentinel.
ShutdownBlocks ==
    /\ InCall
    /\ SentinelMayBeMissed
    /\ subcommands' = <<>>
    /\ discarded' = discarded \cup Elements(subcommands)
    /\ pc' = "blocked"
    /\ usage' = "other"
    /\ shut' = TRUE
    /\ sample' = <<>>
    /\ UNCHANGED notScheduler
    /\ UNCHANGED <<total, jobs, load_average, running_jobs, counter, processes,
                   tee, fds, exc, exitCode, gen, nsubmitted, launched, failed,
                   lines, yielded, stdout_tty>>

\* The body of the `with` ends: normally (e = "none") or by raising.
LeaveBody ==
    /\ pc = "body" /\ gen # "started"
    /\ \E e \in {"none", "ValueError", "Exception"} :
          /\ exc' = e
          /\ usage' = IF e = "none" THEN usage ELSE "other"
    /\ pc' = "exit_start"
    /\ sample' = <<>>
    /\ UNCHANGED notScheduler
    /\ UNCHANGED <<total, jobs, load_average, running_jobs, counter, subcommands,
                   processes, tee, fds, exitCode, gen, nsubmitted, launched,
                   failed, lines, yielded, discarded, shut, stdout_tty>>

\* __exit__(): __finish_all_tasks() up to the wait: as_completed()'s self.start().
\* An exception raised here leaves __exit__ at once: SystemExit from perror()
\* ends the process, with no shutdown() and the descriptors not restored.
ExitStart ==
    /\ pc = "exit_start"
    /\ \E la \in LoadSamples, c \in 0..MaxJobs, outcome \in StartOutcomes :
          /\ start(la, c, outcome)
          /\ LET e == StartRaises(outcome)
             IN  CASE e = "none" -> pc' = "exit_drain" /\ UNCHANGED <<exc, exitCode>>
                   [] e = "SystemExit" -> /\ pc' = "terminated" /\ exc' = e
                                          /\ exitCode' = EXIT_NO_SUCH_SUBCOMMAND
                   [] OTHER -> pc' = "left" /\ exc' = e /\ UNCHANGED exitCode
    /\ UNCHANGED notScheduler
    /\ UNCHANGED <<total, jobs, load_average, fds, gen, nsubmitted, yielded, usage, shut>>

\* __exit__(): __finish_all_tasks(), one turn of as_completed()'s loop.
ExitReap ==
    /\ pc = "exit_drain"
    /\ processes # {}
    /\ \E pid \in processes, st \in WaitStatuses :
          /\ processes' = processes \ {pid}
          /\ yielded' = Append(yielded, <<pid, ExitCodeOf(st)>>)
    /\ sample' = <<>>
    /\ UNCHANGED notScheduler
    /\ UNCHANGED <<total, jobs, load_average, running_jobs, counter, subcommands,
                   tee, fds, pc, exc, exitCode, gen, nsubmitted, launched, failed,
                   lines, discarded, usage, shut, stdout_tty>>

\* __exit__(): __finish_all_tasks(), a turn of the loop in which os.waitpid(-1,
\* 0) returns the tee helper: KeyError leaves __exit__ at once, with no
\* shutdown() and the descriptors not restored.
ExitReapUntracked ==
    /\ pc = "exit_drain"
    /\ processes # {}
    /\ tee = "running"
    /\ tee' = "exited"
    /\ pc' = "left" /\ exc' = "Exception"
    /\ sample' = <<>>
    /\ UNCHANGED notScheduler
    /\ UNCHANGED <<total, jobs, load_average, running_jobs, counter, subcommands,
                   processes, fds, exitCode, gen, nsubmitted, launched, failed,
                   lines, yielded, discarded, usage, shut, stdout_tty>>

\* __exit__() after the drain: shutdown(), restore the descriptors, then
\* handle_subcommand_failure() unless the body raised nothing or ValueError.
ExitFinish ==
    /\ pc = "exit_drain"
    /\ processes = {}
    /\ shutdown(subcommands, processes)
    /\ IF ShutdownRaises
       THEN pc' = "left" /\ exc' = "Exception" /\ UNCHANGED <<fds, exitCode>>
       ELSE /\ fds' = "orig"
            /\ IF exc # "none" /\ exc # "ValueError"
               THEN pc' = "terminated" /\ exitCode' = EXIT_SUBCOMMAND_FAILED
               ELSE pc' = "left" /\ UNCHANGED exitCode
            /\ UNCHANGED exc
    /\ sample' = <<>>
    /\ UNCHANGED notScheduler
    /\ UNCHANGED <<total, jobs, load_average, running_jobs, counter, gen,
                   nsubmitted, launched, failed, lines, yielded, usage, shut, stdout_tty>>

\* __exit__() after the drain, when tee misses the sentinel of its shutdown().
ExitFinishBlocks ==
    /\ pc = "exit_drain"
    /\ processes = {}
    /\ SentinelMayBeMissed
    /\ subcommands' = <<>>
    /\ discarded' = discarded \cup Elements(subcommands)
    /\ pc' = "blocked"
    /\ sample' = <<>>
    /\ UNCHANGED notScheduler
    /\ UNCHANGED <<total, jobs, load_average, running_jobs, counter, processes,
                   tee, fds, exc, exitCode, gen, nsubmitted, launched, failed,
                   lines, yielded, usage, shut, stdout_tty>>

Next ==
    \/ Enter
    \/ Submit
    \/ Start
    \/ NextFirst
    \/ NextReap
    \/ NextReapUntracked
    \/ NextEnd
    \/ Shutdown
    \/ ShutdownBlocks
    \/ LeaveBody
    \/ ExitStart
    \/ ExitReap
    \/ ExitReapUntracked
    \/ ExitFinish
    \/ ExitFinishBlocks

\* The other parts of the program, not in use.
ScopesIdle ==
    /\ scope_pc = [i \in 1..MaxScopes |-> "none"]
    /\ scope_streams = [i \in 1..MaxScopes |-> 0]
    /\ scope_tee = [i \in 1..MaxScopes |-> "none"]
    /\ stdout_fd = 0

WaitIdle == reaped_status = <<>> /\ reaped_result = <<>>

SchedulerIdle ==
    /\ total = 0 /\ jobs = 1 /\ load_average = 1 /\ running_jobs = 1
    /\ counter = 0 /\ subcommands = <<>> /\ processes = {}
    /\ tee = "none" /\ fds = "orig" /\ pc = "constructed"
    /\ exc = "none" /\ exitCode = 0 /\ gen = "none"
    /\ nsubmitted = 0 /\ launched = <<>> /\ failed = {} /\ lines = <<>>
    /\ yielded = <<>> /\ discarded = {} /\ sample = <<>>
    /\ usage = "submits" /\ shut = FALSE /\ stdout_tty = "unknown"

\* No cache object, no file, no key.
CacheIdle ==
    /\ declarations = [i \in 1..NumSources |-> <<>>]
    /\ cache_file = <<>> /\ public_key_file = 0 /\ keyring = 0
    /\ clock = 0 /\ keys_made = 0
    /\ cache = <<>> /\ clear = FALSE /\ signature = <<>>
    /\ public_key_bytes = 0 /\ opened = FALSE
    /\ cache_pc = "none" /\ scoped = "unknown" /\ cache_exit = 0
    /\ op = "none" /\ arg = <<>> /\ ret = <<>> /\ raised = "none" /\ did = <<>>
    /\ expect = <<>> /\ appended = <<>>
    /\ nops = 0 /\ nenv = 0 /\ nsessions = 0 /\ written = 0

\* Nothing signed, nothing verified.
CryptoIdle ==
    /\ crypto_pc = "idle" /\ crypto_payload = <<>> /\ crypto_signature = <<>>
    /\ crypto_key = 0 /\ crypto_pair = <<>> /\ crypto_result = "none"

\* A helper just started: nothing in the pipe, nothing written.
TeeIdle ==
    /\ tee_pc = "running" /\ tee_stdin = <<>> /\ tee_open = TRUE
    /\ tee_stdout = <<>> /\ tee_buffer = <<>> /\ tee_logfile = <<>>
    /\ tee_exit = <<>> /\ tee_sent = <<>>

allvars == <<vars, scopeVars, waitVars, cacheVars, cryptoVars, teeVars>>

\* One executor, used by one caller.
SchedulerInit ==
    Init /\ ScopesIdle /\ WaitIdle /\ CacheIdle /\ CryptoIdle /\ TeeIdle

Spec == SchedulerInit /\ [][Next]_allvars

\* ------------------------------------------------------- several scopes

\* __init__() of executor i: self.streams duplicates what fd 1 / fd 2 point at
\* at that moment.
Construct(i) ==
    /\ scope_pc[i] = "none"
    /\ \A j \in 1..MaxScopes : scope_pc[j] # "blocked"
    /\ scope_pc' = [scope_pc EXCEPT ![i] = "constructed"]
    /\ scope_streams' = [scope_streams EXCEPT ![i] = stdout_fd]
    /\ UNCHANGED <<scope_tee, stdout_fd>>
    /\ UNCHANGED notScopes

\* __enter__() of executor i: launch its tee and dup2 the pipe over stdout and
\* stderr.  Nothing is looked at first: not whether another scope is active.
ScopeEnter(i) ==
    /\ scope_pc[i] = "constructed"
    /\ \A j \in 1..MaxScopes : scope_pc[j] # "blocked"
    /\ scope_pc' = [scope_pc EXCEPT ![i] = "entered"]
    /\ scope_tee' = [scope_tee EXCEPT ![i] = "running"]
    /\ stdout_fd' = i
    /\ UNCHANGED scope_streams
    /\ UNCHANGED notScopes

\* __exit__() of executor i with nothing queued: shutdown() writes the sentinel
\* to sys.stdout, that is to whatever fd 1 points at, and waits for its own tee;
\* then the descriptors are set back to self.streams.  The sentinel reaches the
\* tee that reads the pipe behind fd 1: another scope's tee exits on it, and the
\* wait for the own tee, which never sees it, does not return.  Written to a pipe
\* whose tee has exited, the flush raises BrokenPipeError.
ScopeExit(i) ==
    /\ scope_pc[i] = "entered"
    /\ \A j \in 1..MaxScopes : scope_pc[j] # "blocked"
    /\ IF stdout_fd # 0 /\ scope_tee[stdout_fd] = "exited"
       THEN /\ scope_pc' = [scope_pc EXCEPT ![i] = "raised"]
            /\ UNCHANGED <<scope_tee, stdout_fd>>
       ELSE /\ scope_tee' = IF stdout_fd = 0 THEN scope_tee
                            ELSE [scope_tee EXCEPT ![stdout_fd] = "exited"]
            /\ IF stdout_fd = i
               THEN /\ scope_pc' = [scope_pc EXCEPT ![i] = "left"]
                    /\ stdout_fd' = scope_streams[i]
               ELSE /\ scope_pc' = [scope_pc EXCEPT ![i] = "blocked"]
                    /\ UNCHANGED stdout_fd
    /\ UNCHANGED scope_streams
    /\ UNCHANGED notScopes

ScopesNext ==
    \E i \in 1..MaxScopes :
        \/ Construct(i)
        \/ ScopeEnter(i)
        \/ ScopeExit(i)

\* Several executors constructed, entered and left in any order.
ScopesInit ==
    ScopesIdle /\ SchedulerIdle /\ WaitIdle /\ CacheIdle /\ CryptoIdle /\ TeeIdle

ScopesSpec == ScopesInit /\ [][ScopesNext]_allvars

\* ------------------------------------------- reaping, every wait status

\* The statuses os.waitpid(-1, 0) returns on POSIX, 16 bits: a child that
\* exited with code s (s in the high byte, low byte 0), or one killed by a
\* signal (the signal in the low 7 bits, bit 7 set when it dumped core).
NormalExit(s) == s * 256
Signalled(sig, core) == sig + 128 * core
AllWaitStatuses ==
    {NormalExit(s) : s \in 0..255} \cup
    {Signalled(sig, core) : sig \in 1..126, core \in {0, 1}}

\* pid, status = os.waitpid(-1, 0)
Wait ==
    /\ reaped_result = <<>>
    /\ \E st \in AllWaitStatuses : reaped_status' = <<st>>
    /\ UNCHANGED reaped_result
    /\ UNCHANGED notWait

\* result = (pid, status >> 8); yield result
Yield ==
    /\ reaped_status # <<>> /\ reaped_result = <<>>
    /\ \E pid \in 1..MaxJobs : reaped_result' = <<pid, ExitCodeOf(reaped_status[1])>>
    /\ UNCHANGED reaped_status
    /\ UNCHANGED notWait

\* The consumer takes the pair; the loop goes round.
Resume ==
    /\ reaped_result # <<>>
    /\ reaped_status' = <<>> /\ reaped_result' = <<>>
    /\ UNCHANGED notWait

WaitNext == Wait \/ Yield \/ Resume

WaitInit ==
    WaitIdle /\ SchedulerIdle /\ ScopesIdle /\ CacheIdle /\ CryptoIdle /\ TeeIdle

WaitSpec == WaitInit /\ [][WaitNext]_allvars

\* ------------------------------------------------- the cache: pure parts

Min(a, b) == IF a < b THEN a ELSE b

\* Python's b[from:to] on a byte string (offsets from 0, clamped to its length).
Slice(b, from, to) ==
    IF from >= Min(to, Len(b)) THEN <<>> ELSE SubSeq(b, from + 1, Min(to, Len(b)))

\* Python's b[from:].
SliceFrom(b, from) == Slice(b, from, Len(b))

\* As many zero bytes as a signature has bytes.
Zeros == [i \in 1..(KEY_SIZE \div 8) |-> 0]

\* b, zero-filled to n bytes (n at most the size of a signature).
Pad(b, n) == b \o SubSeq(Zeros, 1, n - Len(b))

\* pickle.dumps(data): an opening opcode (PROTO, 0x80), the data, and the STOP
\* opcode ('.', 46).  Data are sequences of small numbers, all below 46.
dumps(data) == <<128>> \o data \o <<46>>

\* pickle.loads(b) raises on an empty or truncated stream or one that does not
\* start with an opcode; otherwise it reads up to the first STOP and ignores
\* whatever follows it.
loads_raises(b) ==
    \/ Len(b) < 2
    \/ b[1] # 128
    \/ \A i \in 2..Len(b) : b[i] # 46

loads(b) ==
    LET stop == CHOOSE i \in 2..Len(b) :
                    b[i] = 46 /\ \A j \in 2..(i - 1) : b[j] # 46
    IN  SubSeq(b, 2, stop - 1)

\* crypto.sign(payload, private_key): KEY_SIZE / 8 bytes that determine the key
\* pair and the payload (and that nobody without the private key can make).
sign(payload, private_key) ==
    Pad(<<private_key, Len(payload)>> \o payload, KEY_SIZE \div 8)

\* crypto.verify(): load_pem_public_key() raises ValueError for bytes that are
\* no PEM-encoded key (empty ones included), and verify() catches
\* InvalidSignature only.
verify_raises(public_key) == public_key < 1

\* crypto.verify(payload, signature, public_key), when it returns: the
\* signature is one that the private key of the same pair makes for this
\* payload (a signature of another length is an invalid one).
verify(payload, sig, public_key) ==
    public_key # 0 /\ sig = sign(payload, public_key)

\* Faulty variant (C18 must tell it apart): a source as old as the cache file
\* counts as newer.
NewerOrSame(source_mtime, cache_mtime) == source_mtime >= cache_mtime

\* open(): os.path.getmtime(declaration) > cache_file_modification_timestamp
Newer(source_mtime, cache_mtime) == source_mtime > cache_mtime

\* Faulty variant (C21 must tell it apart): a key that is already in build
\* keeps its value.
MergeKeepsEarlier(build, parsed) ==
    [k \in 1..NumKeys |-> IF build[k] # 0 THEN build[k] ELSE parsed[k]]

\* regenerate(): build = {**build, **parsed_declaration}
MergeInto(build, parsed) ==
    [k \in 1..NumKeys |-> IF parsed[k] # 0 THEN parsed[k] ELSE build[k]]

\* regenerate(): the loop over SPARK_BUILD_DECLARATION_FILES, up to source n.
RECURSIVE BuildUpTo(_)
BuildUpTo(n) ==
    IF n = 0 THEN [k \in 1..NumKeys |-> 0]
    ELSE IF declarations[n] = <<>> THEN BuildUpTo(n - 1)
         ELSE MergeInto(BuildUpTo(n - 1), declarations[n][2])

\* The mapping regenerate() builds from the sources as they are now.
Build == BuildUpTo(NumSources)

\* What source i holds in its version v: it sets key k when k divides i, to a
\* value that tells the source and the version.
Content(i, v) == [k \in 1..NumKeys |-> IF i % k = 0 THEN i + NumSources * v ELSE 0]

\* Data a caller writes or appends: unlike any Build, and of another size.
CallerData == {<<NumSources * 2 + 1>>}

\* Sizes and offsets a caller reads with: the size of a pickle of the above or
\* of a Build; offset 0 or behind a Build.
Sizes == {Len(dumps(d)) : d \in CallerData} \cup {NumKeys + 2}
Offsets == {0, NumKeys + 2}

\* --------------------------------------------- the cache: SparkCacheFile

\* The object, its files and the key store, as a method finds them: what the
\* methods below take and give back.  result is <<value>> once a value is
\* returned; error names the exception that is raised.
Me ==
    [cache |-> cache, signature |-> signature, pkb |-> public_key_bytes,
     opened |-> opened, file |-> cache_file, pubfile |-> public_key_file,
     keyring |-> keyring, keys |-> keys_made, did |-> <<>>, result |-> <<>>,
     error |-> "none"]

\* crypto.generate_key_pair(): a fresh pair; its public key is written to the
\* public-key file.
generate_key_pair(st) ==
    [st EXCEPT !.keys = st.keys + 1, !.pubfile = st.keys + 1]

\* __load_public_key()
load_public_key(st) ==
    IF st.pubfile = 0
    THEN LET g == generate_key_pair(st)
         IN  [g EXCEPT !.keyring = g.keys, !.pkb = g.keys]
    ELSE [st EXCEPT !.pkb = st.pubfile]

\* Faulty variant (C17 must tell it apart): a key pair regenerated by sync()
\* is put in the key store, and the public-key file keeps the old public key.
SyncKeepsPublicKey(st) ==
    LET s1 == IF st.keyring = 0
              THEN [st EXCEPT !.keys = st.keys + 1, !.keyring = st.keys + 1]
              ELSE st
        sig == sign(s1.cache, s1.keyring)
    IN  [s1 EXCEPT !.signature = sig,
                   !.file = <<clock, sig \o s1.cache>>,
                   !.did = Append(@, "sync")]

\* Faulty variant (C25 must tell it apart): the key pair sync() regenerates
\* signs the cache and is not put in the key store.
SyncForgetsPrivateKey(st) ==
    LET s1 == IF st.keyring = 0 THEN generate_key_pair(st) ELSE st
        sig == sign(s1.cache, IF st.keyring = 0 THEN s1.keys ELSE s1.keyring)
    IN  [s1 EXCEPT !.signature = sig,
                   !.file = <<clock, sig \o s1.cache>>,
                   !.did = Append(@, "sync")]

\* sync(): self.public_key_bytes is left as it is.
sync(st) ==
    LET s1 == IF st.keyring = 0
              THEN LET g == generate_key_pair(st) IN [g EXCEPT !.keyring = g.keys]
              ELSE st
        sig == sign(s1.cache, s1.keyring)
    IN  [s1 EXCEPT !.signature = sig,
                   !.file = <<clock, sig \o s1.cache>>,
                   !.did = Append(@, "sync")]

\* Faulty variant (C20 must tell it apart): the payload is built and written
\* before Spark.toml is looked for.
RegenerateThenCheck(st) ==
    LET s1 == sync([st EXCEPT !.cache = dumps(Build), !.opened = TRUE,
                              !.did = Append(@, "regenerate")])
    IN  IF declarations[SparkToml] = <<>>
        THEN [s1 EXCEPT !.error = "SystemExit"]
        ELSE s1

\* Faulty variant (C27 must tell it apart): regenerate() leaves the writing
\* to whoever closes the cache.
RegenerateWithoutSync(st) ==
    IF declarations[SparkToml] = <<>>
    THEN [st EXCEPT !.error = "SystemExit", !.did = Append(@, "regenerate")]
    ELSE [st EXCEPT !.cache = dumps(Build), !.opened = TRUE,
                    !.did = Append(@, "regenerate")]

\* regenerate()
regenerate(st) ==
    IF declarations[SparkToml] = <<>>
    THEN [st EXCEPT !.error = "SystemExit", !.did = Append(@, "regenerate")]
    ELSE sync([st EXCEPT !.cache = dumps(Build), !.opened = TRUE,
                         !.did = Append(@, "regenerate")])

\* open(): some existing source is newer than the cache file.
SomeSourceNewer(st) ==
    \E i \in 1..NumSources :
        declarations[i] # <<>> /\ Newer(declarations[i][1], st.file[1])

\* open()
open(st) ==
    LET s0 == load_public_key([st EXCEPT !.opened = TRUE])
    IN  IF s0.file = <<>> THEN regenerate(s0)
        ELSE IF clear THEN s0
        ELSE IF SomeSourceNewer(s0) THEN regenerate(s0)
        ELSE LET contents == s0.file[2]
                 s1 == [s0 EXCEPT
                          !.signature = Slice(contents, 0, SIGNATURE_SIZE_BYTES),
                          !.cache = SliceFrom(contents, SIGNATURE_SIZE_BYTES)]
             IN  IF verify_raises(s1.pkb) THEN [s1 EXCEPT !.error = "ValueError"]
                 ELSE IF ~verify(s1.cache, s1.signature, s1.pkb)
                 THEN regenerate(s1)
                 ELSE s1

\* is_cached(): os.remove() raises FileNotFoundError when the file is not there.
is_cached(st) ==
    LET s0 == IF ~st.opened THEN open(st) ELSE st
    IN  IF s0.error # "none" THEN s0
        ELSE IF verify_raises(s0.pkb) THEN [s0 EXCEPT !.error = "ValueError"]
        ELSE IF verify(s0.cache, s0.signature, s0.pkb)
             THEN [s0 EXCEPT !.result = <<TRUE>>]
             ELSE IF s0.file = <<>>
                  THEN [s0 EXCEPT !.error = "FileNotFoundError"]
                  ELSE [s0 EXCEPT !.file = <<>>, !.did = Append(@, "remove"),
                                  !.result = <<FALSE>>]

\* pickle.loads(b), as the last thing a method does.
Unpickled(st, b) ==
    IF loads_raises(b)
    THEN [st EXCEPT !.error = "UnpicklingError", !.result = <<>>]
    ELSE [st EXCEPT !.result = <<loads(b)>>]

\* Faulty variant (C22 must tell it apart): the missing file is looked for
\* before the object is asked whether it is open.
ReadRegeneratesFirst(st, a) ==
    LET s0 == IF st.file = <<>> THEN regenerate(st) ELSE st
    IN  IF s0.error # "none" THEN s0
        ELSE IF ~s0.opened THEN [s0 EXCEPT !.error = "FileNotFoundError"]
        ELSE LET s1 == is_cached(s0)
             IN  IF s1.error # "none" THEN s1
                 ELSE IF s1.result = <<TRUE>> /\ a # <<>>
                      THEN Unpickled(s1, Slice(s1.cache, a[2], a[1] + a[2]))
                      ELSE Unpickled(s1, s1.cache)

\* read(size, offset); a is <<>> for read() and <<size, offset>> otherwise.
read(st, a) ==
    IF ~st.opened THEN [st EXCEPT !.error = "FileNotFoundError"]
    ELSE LET s0 == IF st.file = <<>> THEN regenerate(st) ELSE st
         IN  IF s0.error # "none" THEN s0
             ELSE LET s1 == is_cached(s0)
                  IN  IF s1.error # "none" THEN s1
                      ELSE IF s1.result = <<TRUE>> /\ a # <<>>
                           THEN Unpickled(s1, Slice(s1.cache, a[2], a[1] + a[2]))
                           ELSE Unpickled(s1, s1.cache)

\* write(data)
write(st, data) == [st EXCEPT !.cache = dumps(data)]

\* append(data)
append(st, data) ==
    LET provision == dumps(data)
    IN  [st EXCEPT !.cache = st.cache \o provision, !.result = <<Len(provision)>>]

\* Faulty variant (C26 must tell it apart): the object is marked closed and
\* nothing is written.
CloseWithoutSync(st) == [st EXCEPT !.opened = FALSE]

\* close()
close(st) == [sync(st) EXCEPT !.opened = FALSE]

\* get_cache_size()
get_cache_size(st) == [st EXCEPT !.result = <<Len(st.cache)>>]

\* ------------------------------------------------ the cache: operations

\* How many times the operation that made sequence d of calls wrote the cache
\* file.
Writes(d) == Cardinality({i \in 1..Len(d) : d[i] = "sync"})

\* A method called as operation name with argument a leaves st behind.  An
\* exception raised in the body of a `with` goes through __exit__; SystemExit
\* raised anywhere else ends the process; any other exception is the caller's
\* to handle, and the object stays as it is.  An object used before it is
\* opened is not used through `with`; whether an opened one is matters, and is
\* settled, when an exception first leaves an operation.
Effect(st, name, a, normal_pc) ==
    /\ cache' = st.cache
    /\ signature' = st.signature
    /\ public_key_bytes' = st.pkb
    /\ opened' = st.opened
    /\ cache_file' = st.file
    /\ public_key_file' = st.pubfile
    /\ keyring' = st.keyring
    /\ keys_made' = st.keys
    /\ op' = name
    /\ arg' = a
    /\ ret' = st.result
    /\ raised' = st.error
    /\ did' = st.did
    /\ \E sc \in {"yes", "no"} :
          /\ IF cache_pc = "new" /\ name # "open"
             THEN sc = "no" /\ scoped' = sc
             ELSE IF st.error # "none" /\ cache_pc = "open" /\ scoped = "unknown"
                  THEN scoped' = sc
                  ELSE sc = "yes" /\ UNCHANGED scoped
          /\ cache_pc' = IF st.error = "none" THEN normal_pc
                         ELSE IF scoped' = "yes" /\ cache_pc = "open" THEN "exiting"
                         ELSE IF st.error = "SystemExit" THEN "terminated"
                         ELSE cache_pc
          /\ cache_exit' = IF /\ st.error = "SystemExit"
                              /\ ~(scoped' = "yes" /\ cache_pc = "open")
                           THEN EXIT_SPARKFILE_UNAVAILABLE ELSE cache_exit
    /\ written' = written + Writes(st.did)
    /\ UNCHANGED <<declarations, clock, clear, nenv, nsessions>>
    /\ UNCHANGED notCache

\* The process is between two uses of the cache (or a new process starts).
Between == cache_pc \in {"none", "closed", "terminated"}

\* SparkCacheFile(clear), to be used through `with` or directly.
CacheNew ==
    /\ Between
    /\ nsessions < MaxSessions
    /\ \E c \in BOOLEAN :
          /\ clear' = c
          /\ scoped' = "unknown"
          /\ expect' = IF c THEN <<>> ELSE expect
          /\ appended' = IF c THEN <<>> ELSE appended
    /\ cache' = <<>> /\ signature' = <<>> /\ public_key_bytes' = 0
    /\ opened' = FALSE
    /\ cache_pc' = "new" /\ cache_exit' = 0
    /\ op' = "__init__" /\ arg' = <<>> /\ ret' = <<>> /\ raised' = "none"
    /\ did' = <<>>
    /\ nsessions' = nsessions + 1
    /\ written' = 0
    /\ UNCHANGED <<declarations, cache_file, public_key_file, keyring, clock,
                   keys_made, nops, nenv>>
    /\ UNCHANGED notCache

\* open(), or __enter__()
CacheOpen ==
    /\ cache_pc = "new"
    /\ Effect(open(Me), "open", <<>>, "open")
    /\ UNCHANGED <<expect, appended, nops>>

\* An operation in the body of the scope, or between open() and close().
InBody == cache_pc = "open" /\ nops < MaxOps

\* write(data)
CacheWrite ==
    /\ InBody
    /\ \E data \in CallerData :
          /\ Effect(write(Me, data), "write", <<data>>, "open")
          /\ expect' = <<data>>
    /\ appended' = <<>>
    /\ nops' = nops + 1

\* append(data)
CacheAppend ==
    /\ InBody
    /\ \E data \in CallerData :
          /\ Effect(append(Me, data), "append", <<data>>, "open")
          /\ appended' = <<Len(cache), Len(dumps(data)), data, cache>>
    /\ expect' = <<>>
    /\ nops' = nops + 1

\* read() and read(size, offset); on an object never opened, or closed, it
\* raises.
CacheRead ==
    /\ \/ InBody
       \/ cache_pc \in {"new", "closed"} /\ nops < MaxOps
    /\ \E a \in {<<>>} \cup (Sizes \X Offsets) :
          Effect(read(Me, a), "read", a, cache_pc)
    /\ nops' = nops + 1
    /\ UNCHANGED <<expect, appended>>

\* is_cached(); on an object never opened it opens it.
CacheIsCached ==
    /\ \/ InBody
       \/ cache_pc = "new" /\ nops < MaxOps
    /\ Effect(is_cached(Me), "is_cached", <<>>, "open")
    /\ nops' = nops + 1
    /\ UNCHANGED <<expect, appended>>

\* sync()
CacheSync ==
    /\ InBody
    /\ Effect(sync(Me), "sync", <<>>, "open")
    /\ nops' = nops + 1
    /\ UNCHANGED <<expect, appended>>

\* regenerate(), called by the caller.
CacheRegenerate ==
    /\ InBody
    /\ Effect(regenerate(Me), "regenerate", <<>>, "open")
    /\ expect' = <<>>
    /\ appended' = <<>>
    /\ nops' = nops + 1

\* get_cache_size()
CacheGetSize ==
    /\ InBody
    /\ Effect(get_cache_size(Me), "get_cache_size", <<>>, "open")
    /\ nops' = nops + 1
    /\ UNCHANGED <<expect, appended>>

\* close(), or __exit__() at the end of the body.
CacheClose ==
    /\ cache_pc = "open"
    /\ Effect(close(Me), "close", <<>>, "closed")
    /\ UNCHANGED <<expect, appended, nops>>

\* __exit__() with an exception leaving the body: close(); the exception goes
\* on, and SystemExit ends the process.
CacheExitOnError ==
    /\ cache_pc = "exiting"
    /\ LET st == close(Me)
       IN  /\ written' = written + Writes(st.did)
           /\ cache' = st.cache
           /\ signature' = st.signature
           /\ public_key_bytes' = st.pkb
           /\ opened' = st.opened
           /\ cache_file' = st.file
           /\ public_key_file' = st.pubfile
           /\ keyring' = st.keyring
           /\ keys_made' = st.keys
           /\ did' = st.did
    /\ op' = "__exit__" /\ arg' = <<>> /\ ret' = <<>>
    /\ cache_pc' = IF raised = "SystemExit" THEN "terminated" ELSE "closed"
    /\ cache_exit' = IF raised = "SystemExit"
                     THEN EXIT_SPARKFILE_UNAVAILABLE ELSE cache_exit
    /\ UNCHANGED <<declarations, clock, clear, scoped, raised, expect, appended,
                   nops, nenv, nsessions>>
    /\ UNCHANGED notCache

\* ------------------------------------------- the cache: its environment

\* Between two uses of the cache the user, or anyone, changes a file or the
\* key store.  What a write(X) or append(Y) left is then no longer expected.
EnvChange ==
    /\ Between
    /\ nsessions < MaxSessions
    /\ nenv < MaxEnv
    /\ nenv' = nenv + 1
    /\ expect' = <<>> /\ appended' = <<>>
    /\ op' = "environment" /\ arg' = <<>> /\ ret' = <<>> /\ raised' = "none"
    /\ did' = <<>>
    /\ UNCHANGED <<keys_made, cache, clear, signature, public_key_bytes, opened,
                   cache_pc, scoped, cache_exit, nops, nsessions, written>>
    /\ UNCHANGED notCache

\* A declaration source is written (created, or its content changed), in the
\* mtime granule of the last write of anything or in a later one.
EditSource ==
    /\ EnvChange
    /\ \E i \in 1..NumSources, later \in BOOLEAN :
          /\ later => clock < MaxClock
          /\ clock' = IF later THEN clock + 1 ELSE clock
          /\ declarations' =
                [declarations EXCEPT ![i] =
                    <<clock', IF declarations[i] # <<>> /\ declarations[i][2] = Content(i, 0)
                              THEN Content(i, 1) ELSE Content(i, 0)>>]
    /\ UNCHANGED <<cache_file, public_key_file, keyring>>

\* A declaration source is deleted.
RemoveSource ==
    /\ EnvChange
    /\ \E i \in 1..NumSources :
          /\ declarations[i] # <<>>
          /\ declarations' = [declarations EXCEPT ![i] = <<>>]
    /\ UNCHANGED <<cache_file, public_key_file, keyring, clock>>

\* Data nobody wrote through the cache.
TamperData == <<NumSources * 2 + 3>>

\* The cache file is tampered with, its mtime kept: another payload is put
\* behind the signature, a byte of the signature is changed, or the file is cut
\* down to less than a signature.
Tampered(kind, b) ==
    CASE kind = "payload" -> Slice(b, 0, SIGNATURE_SIZE_BYTES) \o dumps(TamperData)
      [] kind = "signature" -> <<255>> \o SliceFrom(b, 1)
      [] kind = "truncated" -> SliceFrom(b, SIGNATURE_SIZE_BYTES)

TamperCacheFile ==
    /\ EnvChange
    /\ cache_file # <<>>
    /\ \E kind \in {"payload", "signature", "truncated"} :
          cache_file' = <<cache_file[1], Tampered(kind, cache_file[2])>>
    /\ UNCHANGED <<declarations, public_key_file, keyring, clock>>

\* The cache file is deleted.
RemoveCacheFile ==
    /\ EnvChange
    /\ cache_file # <<>>
    /\ cache_file' = <<>>
    /\ UNCHANGED <<declarations, public_key_file, keyring, clock>>

\* The private key is no longer in the key store.
ForgetPrivateKey ==
    /\ EnvChange
    /\ keyring # 0
    /\ keyring' = 0
    /\ UNCHANGED <<declarations, cache_file, public_key_file, clock>>

\* The public-key file is deleted.
RemovePublicKey ==
    /\ EnvChange
    /\ public_key_file # 0
    /\ public_key_file' = 0
    /\ UNCHANGED <<declarations, cache_file, keyring, clock>>

\* The sources a project directory starts with: none, Spark.toml alone,
\* all of them, or all but Spark.toml.
SourceSets ==
    {{}, {SparkToml}, 1..NumSources, (1..NumSources) \ {SparkToml}}

\* A project directory: some of the sources exist, in their first version.
\* Either the cache was never used, or an earlier run left the cache of these
\* sources and its key pair, and the private key may since have gone from the
\* key store.
CacheInit ==
    /\ SchedulerIdle /\ ScopesIdle /\ WaitIdle /\ CryptoIdle /\ TeeIdle
    /\ \E present \in SourceSets :
          declarations = [i \in 1..NumSources |->
                            IF i \in present THEN <<0, Content(i, 0)>> ELSE <<>>]
    /\ \/ /\ cache_file = <<>> /\ public_key_file = 0 /\ keyring = 0
          /\ keys_made = 0
       \/ /\ declarations[SparkToml] # <<>>
          /\ cache_file = <<0, sign(dumps(Build), 1) \o dumps(Build)>>
          /\ public_key_file = 1 /\ keyring \in {0, 1}
          /\ keys_made = 1
    /\ clock = 0
    /\ cache = <<>> /\ clear = FALSE /\ signature = <<>>
    /\ public_key_bytes = 0 /\ opened = FALSE
    /\ cache_pc = "none" /\ scoped = "unknown" /\ cache_exit = 0
    /\ op = "none" /\ arg = <<>> /\ ret = <<>> /\ raised = "none" /\ did = <<>>
    /\ expect = <<>> /\ appended = <<>>
    /\ nops = 0 /\ nenv = 0 /\ nsessions = 0 /\ written = 0

CacheNext ==
    \/ CacheNew
    \/ CacheOpen
    \/ CacheWrite
    \/ CacheAppend
    \/ CacheRead
    \/ CacheIsCached
    \/ CacheSync
    \/ CacheRegenerate
    \/ CacheGetSize
    \/ CacheClose
    \/ CacheExitOnError
    \/ EditSource
    \/ RemoveSource
    \/ TamperCacheFile
    \/ RemoveCacheFile
    \/ ForgetPrivateKey
    \/ RemovePublicKey

\* Cache objects used one after another, the environment changing in between.
CacheSpec == CacheInit /\ [][CacheNext]_allvars

\* ------------------------------------------- crypto: sign and verify

\* Payloads to sign: none, and two pickles.
CryptoPayloads == {<<>>, dumps(<<1>>), dumps(<<2>>)}

\* What a call verify(payload, sig, public_key) does.
verify_outcome(payload, sig, public_key) ==
    IF verify_raises(public_key) THEN "ValueError"
    ELSE IF verify(payload, sig, public_key) THEN "True" ELSE "False"

\* Signatures that sign() did not make for payload p with pair k: those of any
\* other payload or pair, and byte strings of another length (none, one byte
\* less, one byte more).
OtherSignatures(p, k) ==
    {sign(p2, k2) : <<p2, k2>> \in (CryptoPayloads \X (1..NumPairs)) \ {<<p, k>>}}
        \cup {<<>>, Slice(sign(p, k), 0, KEY_SIZE \div 8 - 1), sign(p, k) \o <<0>>}

\* sign(payload, private_key), the public key of the pair kept with the result.
CryptoSign ==
    /\ crypto_pc = "idle"
    /\ \E p \in CryptoPayloads, k \in 1..NumPairs :
          /\ crypto_payload' = p
          /\ crypto_signature' = sign(p, k)
          /\ crypto_key' = k
          /\ crypto_pair' = <<p, k, sign(p, k)>>
    /\ crypto_pc' = "signed"
    /\ UNCHANGED crypto_result
    /\ UNCHANGED notCrypto

\* One of the three is replaced: the payload by another one, the signature by
\* one not made for this payload and pair, the key by that of another pair, by
\* b'' or by bytes that are no key.
CryptoSubstitute ==
    /\ crypto_pc = "signed"
    /\ \/ /\ crypto_payload' \in CryptoPayloads \ {crypto_payload}
          /\ UNCHANGED <<crypto_signature, crypto_key>>
       \/ /\ crypto_signature' \in OtherSignatures(crypto_payload, crypto_key)
          /\ UNCHANGED <<crypto_payload, crypto_key>>
       \/ /\ crypto_key' \in ((-1)..NumPairs) \ {crypto_key}
          /\ UNCHANGED <<crypto_payload, crypto_signature>>
    /\ crypto_pc' = "substituted"
    /\ UNCHANGED <<crypto_pair, crypto_result>>
    /\ UNCHANGED notCrypto

\* verify(payload, signature, public_key)
CryptoVerify ==
    /\ crypto_pc \in {"signed", "substituted"}
    /\ crypto_result' = verify_outcome(crypto_payload, crypto_signature, crypto_key)
    /\ crypto_pc' = "verified"
    /\ UNCHANGED <<crypto_payload, crypto_signature, crypto_key, crypto_pair>>
    /\ UNCHANGED notCrypto

CryptoNext == CryptoSign \/ CryptoSubstitute \/ CryptoVerify

CryptoInit ==
    CryptoIdle /\ SchedulerIdle /\ ScopesIdle /\ WaitIdle /\ CacheIdle /\ TeeIdle

CryptoSpec == CryptoInit /\ [][CryptoNext]_allvars

\* ------------------------------------------------------------ tee.py

\* Bytes are kept in runs: "nl" is a newline, "__EOF__" the seven bytes of the
\* sentinel's text, "a" and "b" one byte of other text each, and "big" a run of
\* other text one byte short of the log file's write buffer.
Texts == {"a", "b", "big", "__EOF__"}

ByteCount(run) ==
    CASE run = "__EOF__" -> 7
      [] run = "big" -> LogBufferSize - 1
      [] OTHER -> 1

RECURSIVE Bytes(_)
Bytes(b) == IF b = <<>> THEN 0 ELSE ByteCount(Head(b)) + Bytes(Tail(b))

\* EOF = b"__EOF__\n"
EOF == <<"__EOF__", "nl">>

\* What one write() to the pipe carries: a line, a text without its newline,
\* the sentinel, a long line.
Chunks == {<<"a", "nl">>, <<"b">>, EOF, <<"big", "nl">>}

\* for line in sys.stdin.buffer: a line is there once its newline is, or, when
\* the write end is closed, when anything is left.
LineReady == (\E i \in 1..Len(tee_stdin) : tee_stdin[i] = "nl")
                \/ (~tee_open /\ tee_stdin # <<>>)

\* The length of the line to come: up to its newline, or all that is left.
LineLen ==
    IF \E i \in 1..Len(tee_stdin) : tee_stdin[i] = "nl"
    THEN CHOOSE i \in 1..Len(tee_stdin) :
            tee_stdin[i] = "nl" /\ \A j \in 1..(i - 1) : tee_stdin[j] # "nl"
    ELSE Len(tee_stdin)

\* log.write(line) on the buffered file object open() returns: <<buffer, file>>
\* afterwards.  What fits in the buffer stays there; otherwise the buffer is
\* written out first, and the line too when it is larger than the buffer.
LogWrite(buffer, file, line) ==
    IF Bytes(buffer) + Bytes(line) <= LogBufferSize
    THEN <<buffer \o line, file>>
    ELSE IF Bytes(line) > LogBufferSize
         THEN <<<<>>, file \o buffer \o line>>
         ELSE <<line, file \o buffer>>

\* The scheduler, a child or a test writes a chunk to the pipe.
TeeWrite ==
    /\ tee_pc = "running" /\ tee_open
    /\ Len(tee_sent) < MaxChunks
    /\ \E c \in Chunks :
          /\ tee_stdin' = tee_stdin \o c
          /\ tee_sent' = Append(tee_sent, c)
    /\ UNCHANGED <<tee_pc, tee_open, tee_stdout, tee_buffer, tee_logfile, tee_exit>>
    /\ UNCHANGED notTee

\* The last write end of the pipe is closed.
TeeCloseWriter ==
    /\ tee_pc = "running" /\ tee_open
    /\ tee_open' = FALSE
    /\ UNCHANGED <<tee_pc, tee_stdin, tee_stdout, tee_buffer, tee_logfile,
                   tee_exit, tee_sent>>
    /\ UNCHANGED notTee

\* Leaving `with open(log_path, "wb") as log` and main(): the buffer goes to
\* the file, the process exits 0.
TeeReturn ==
    /\ tee_logfile' = tee_logfile \o tee_buffer
    /\ tee_buffer' = <<>>
    /\ tee_pc' = "exited"
    /\ tee_exit' = <<0>>

\* One turn of the loop: the next line is read; the sentinel ends the loop,
\* any other line is written to stdout, flushed, and written to the log.
TeeLine ==
    /\ tee_pc = "running"
    /\ LineReady
    /\ LET line == SubSeq(tee_stdin, 1, LineLen)
       IN  /\ tee_stdin' = SubSeq(tee_stdin, LineLen + 1, Len(tee_stdin))
           /\ IF line = EOF
              THEN TeeReturn /\ UNCHANGED tee_stdout
              ELSE /\ tee_stdout' = tee_stdout \o line
                   /\ tee_buffer' = LogWrite(tee_buffer, tee_logfile, line)[1]
                   /\ tee_logfile' = LogWrite(tee_buffer, tee_logfile, line)[2]
                   /\ UNCHANGED <<tee_pc, tee_exit>>
    /\ UNCHANGED <<tee_open, tee_sent>>
    /\ UNCHANGED notTee

\* The loop ends at end of input.
TeeEndOfInput ==
    /\ tee_pc = "running"
    /\ ~tee_open /\ tee_stdin = <<>>
    /\ TeeReturn
    /\ UNCHANGED <<tee_stdin, tee_open, tee_stdout, tee_sent>>
    /\ UNCHANGED notTee

\* The helper is terminated (SIGTERM): what is in the buffer is lost.
TeeTerminate ==
    /\ tee_pc = "running"
    /\ tee_pc' = "killed"
    /\ tee_exit' = <<-15>>
    /\ tee_buffer' = <<>>
    /\ UNCHANGED <<tee_stdin, tee_open, tee_stdout, tee_logfile, tee_sent>>
    /\ UNCHANGED notTee

TeeNext == TeeWrite \/ TeeCloseWriter \/ TeeLine \/ TeeEndOfInput \/ TeeTerminate

TeeInit ==
    TeeIdle /\ SchedulerIdle /\ ScopesIdle /\ WaitIdle /\ CacheIdle /\ CryptoIdle

TeeSpec == TeeInit /\ [][TeeNext]_allvars

\* The helper is a process of its own: a turn of its loop that can be taken is
\* taken.  Nobody has to close the pipe or to terminate the helper.
TeeFairSpec ==
    TeeSpec /\ WF_allvars(TeeLine) /\ WF_allvars(TeeEndOfInput)

\* ---------------------------------------------------------------- claims

\* The subcommands submitted and not dropped from the queue by a shutdown(), in
\* submission order.
RECURSIVE KeptUpTo(_)
KeptUpTo(n) ==
    IF n = 0 THEN <<>>
    ELSE IF n \in discarded THEN KeptUpTo(n - 1)
         ELSE Append(KeptUpTo(n - 1), n)

\* The pids as_completed() has yielded.
YieldedPids == {yielded[i][1] : i \in 1..Len(yielded)}

\* C1: N subcommands are submitted and one as_completed() is then iterated to
\* its end: it has yielded exactly N pairs, one for each submitted subcommand.
C1_YieldsEverySubmitted ==
    (usage = "iter" /\ gen = "done" /\ pc \in {"constructed", "body"}) =>
        /\ Len(yielded) = nsubmitted
        /\ {launched[pid] : pid \in YieldedPids} = 1..nsubmitted

\* C2: when an as_completed() iteration ends, no shutdown() having been called
\* and no launch having failed, the queue and the running set are both empty.
C2_EndsWithWorkComplete ==
    [][(gen # "done" /\ gen' = "done" /\ ~shut' /\ failed' = {}) =>
           is_work_complete']_vars

\* C3: when the scope is left without error (the caller not having called
\* shutdown()), every submitted subcommand was started and reaped: none was
\* discarded, the progress counter equals the number submitted and no work is left.
C3_ScopeRunsEverything ==
    (pc = "left" /\ exc = "none" /\ ~shut) =>
        /\ discarded = {}
        /\ progress[1] = nsubmitted
        /\ {launched[pid] : pid \in YieldedPids} = 1..nsubmitted
        /\ is_work_complete

\* C4: the number of running children the scheduler tracks never exceeds the
\* configured job count.
C4_RunningWithinJobs == Cardinality(processes) <= jobs

\* C4 witness: the scheduler is at its ceiling of several jobs with work queued.
C4_Witness ==
    /\ jobs >= 2
    /\ Cardinality(processes) = jobs
    /\ subcommands # <<>>

\* C5: a start() whose load sample exceeds the threshold makes at most one launch,
\* and none when a child is already running; it takes exactly the oldest queued
\* subcommand when nothing runs; running children are left untouched.
C5_ThrottledStartsOne ==
    [][(sample' # <<>> /\ sample'[1] > load_average) =>
           /\ Len(launched') - Len(launched) <= 1
           /\ Cardinality(processes' \ processes) <= 1
           /\ processes \subseteq processes'
           /\ processes # {} =>
                 /\ launched' = launched
                 /\ subcommands' = subcommands
                 /\ progress'[1] = progress[1]
           /\ (processes = {} /\ subcommands # <<>>) =>
                 /\ Len(subcommands') = Len(subcommands) - 1
                 /\ progress'[1] = progress[1] + 1]_vars

\* C5 witness: with several jobs allowed, a throttled start() has launched one
\* child and left the rest of the queue waiting.
C5_Witness ==
    /\ sample # <<>> /\ sample[1] > load_average
    /\ jobs >= 2
    /\ Len(launched) = 1
    /\ Cardinality(processes) = 1
    /\ Len(subcommands) >= 1

\* C6 as stated: the k-th progress line is [k/total] and, like the k-th launch,
\* carries the k-th submitted subcommand.
C6_KthLaunchIsKthSubmitted ==
    /\ Len(lines) = Len(launched)
    /\ \A k \in 1..Len(launched) :
          launched[k] = k /\ lines[k] = <<k, total, k>>

\* C6 amended: the k-th progress line is [k/total] and, like the k-th launch,
\* carries the k-th submitted subcommand among those a shutdown() did not
\* discard from the queue.
C6_KthLaunchIsKthKept ==
    /\ Len(lines) = Len(launched)
    /\ Len(launched) <= Len(KeptUpTo(nsubmitted))
    /\ \A k \in 1..Len(launched) :
          /\ launched[k] = KeptUpTo(nsubmitted)[k]
          /\ lines[k] = <<k, total, launched[k]>>

\* C6 witness: a subcommand was discarded and a later one launched after an
\* earlier one, in a second batch.
C6_Witness ==
    /\ discarded # {}
    /\ Len(launched) >= 2
    /\ launched[2] > launched[1] + 1

\* Nothing has been taken from the queue by start().
NothingStarted == Len(subcommands) + Cardinality(discarded) = nsubmitted

\* All work is drained: nothing queued, nothing running, nothing discarded.
Drained == is_work_complete /\ discarded = {}

\* C7: progress()'s first element never decreases, is 0 before anything has
\* been started and equals total once all work is drained when exactly total
\* subcommands were submitted; its second element is the total given at
\* construction throughout.
C7_Progress ==
    /\ [](/\ NothingStarted => progress[1] = 0
          /\ (Drained /\ nsubmitted = total) => progress[1] = total)
    /\ [][progress'[1] >= progress[1] /\ progress'[2] = progress[2]]_vars

\* C7 witness: exactly total (several) subcommands were submitted, started in
\* more than one batch, and all reaped.
C7_Witness ==
    /\ Drained
    /\ total >= 2 /\ jobs < total
    /\ nsubmitted = total
    /\ Len(yielded) = total
    /\ progress = <<total, total>>

\* C8: no submitted subcommand is dequeued and launched twice, and a launched
\* one is no longer queued.
C8_LaunchedAtMostOnce ==
    /\ \A i, j \in 1..Len(launched) : i # j => launched[i] # launched[j]
    /\ \A k \in 1..Len(launched) : launched[k] \notin Elements(subcommands)

\* C8 witness: a child exited nonzero, a launch failed, and a start() went on
\* to launch another subcommand afterwards.
C8_Witness ==
    /\ \E i \in 1..Len(yielded) : yielded[i][2] # 0
    /\ \E f \in failed : f < Len(launched)

\* C9: once a launch has failed, shutdown() has run: nothing is queued or
\* running, and no subcommand is launched after the failed one.
C9_FailureShutsDown ==
    failed # {} =>
        /\ is_work_complete
        /\ \A f \in failed : f = Len(launched)

\* C10: when control has left the scope, on whatever path, stdout and stderr
\* are the descriptors saved before the redirection.
C10_DescriptorsRestored ==
    pc \in {"left", "terminated"} => fds = "orig"

\* C11: when __exit__ ends, having been entered with an error other than
\* ValueError, the descriptors are restored and the process terminates with the
\* subcommand-failure exit code; entered with ValueError or with no error, the
\* scheduler does not terminate the process.
C11_ExitReportsFailure ==
    [][(pc \in {"exit_start", "exit_drain"} /\ pc' \in {"left", "terminated"}) =>
           IF exc \notin {"none", "ValueError"}
           THEN /\ pc' = "terminated"
                /\ exitCode' = EXIT_SUBCOMMAND_FAILED
                /\ fds' = "orig"
           ELSE pc' = "left"]_vars

\* A shutdown() called by the caller or by __exit__ returns.
ShutdownReturns == (Shutdown \/ ExitFinish) /\ ~ShutdownRaises

\* C12: when shutdown() returns, the queue and the running set are empty, every
\* child that was running is gone from the table, tee is not running, and what
\* was pending is discarded; a discarded subcommand is never launched.
C12_ShutdownPostconditions ==
    /\ [][ShutdownReturns =>
             /\ subcommands' = <<>>
             /\ processes' = {}
             /\ tee' # "running"
             /\ Elements(subcommands) \subseteq discarded']_vars
    /\ [](\A k \in 1..Len(launched) : launched[k] \notin discarded)

\* C12 witness: inside the scope the caller's shutdown() has returned; it found
\* work pending and a child running (launched, never reaped), and tee has exited.
C12_Witness ==
    /\ pc = "body" /\ shut
    /\ tee = "exited"
    /\ discarded # {}
    /\ failed = {}
    /\ is_work_complete
    /\ Len(launched) > Len(yielded)

\* C13: at most one scope holds the redirected descriptors at any time: a
\* second scope is not entered while another is active.
C13_OneScopeAtATime ==
    Cardinality({i \in 1..MaxScopes : scope_pc[i] = "entered"}) <= 1

\* C14: the exit code yielded for a reaped child is in 0..255, and for a child
\* that exited normally with status s it is s.
C14_YieldedExitCode ==
    reaped_result # <<>> =>
        /\ reaped_result[2] \in 0..255
        /\ \A s \in 0..255 :
              reaped_status = <<NormalExit(s)>> => reaped_result[2] = s

\* C14 witness: a child that exited with the largest code, 255, was yielded.
C14_Witness ==
    /\ reaped_result # <<>>
    /\ reaped_status = <<NormalExit(255)>>
    /\ reaped_result[2] = 255

\* C15: a read() on an opened cache returns the X of the last write(X), in the
\* scope of the write and after a close and a reopen, as long as neither the
\* caller nor the environment has changed anything since the write.
C15_WriteReadRoundTrip ==
    (op = "read" /\ arg = <<>> /\ opened /\ expect # <<>>) =>
        (raised = "none" /\ ret = expect)

\* C16: append(Y) returns the size L of the pickled Y and leaves a payload of
\* S + L bytes, S being its size before; from then on, in the same scope or
\* after a close and a reopen, read(S, 0) on the opened cache returns what the
\* payload held before and read(L, S) returns Y.
C16_AppendOffsets ==
    /\ op = "append" =>
          /\ ret = <<appended[2]>>
          /\ Len(cache) = appended[1] + appended[2]
    /\ (op = "read" /\ opened /\ appended # <<>> /\ ~loads_raises(appended[4])) =>
          /\ arg = <<appended[1], 0>> =>
                (raised = "none" /\ ret = <<loads(appended[4])>>)
          /\ arg = <<appended[2], appended[1]>> =>
                (raised = "none" /\ ret = <<appended[3]>>)

\* The stored file is a signature of SIGNATURE_SIZE_BYTES bytes followed by a
\* payload, and the signature verifies over the payload under the public key
\* in the public-key file.
StoredRecordVerifies ==
    /\ cache_file # <<>>
    /\ Len(cache_file[2]) >= SIGNATURE_SIZE_BYTES
    /\ public_key_file # 0
    /\ verify(SliceFrom(cache_file[2], SIGNATURE_SIZE_BYTES),
              Slice(cache_file[2], 0, SIGNATURE_SIZE_BYTES),
              public_key_file)

\* C17: when a sync() has just run (as the last thing an operation did), the
\* cache file is a 512-byte signature followed by the payload the object holds,
\* and the signature verifies over it under the public key in the public-key
\* file.
C17_SyncedFileVerifies ==
    (did # <<>> /\ did[Len(did)] = "sync") =>
        /\ StoredRecordVerifies
        /\ SliceFrom(cache_file[2], SIGNATURE_SIZE_BYTES) = cache

\* C17 witness: the private key was gone from the key store when a valid cache
\* was closed; sync() made a new key pair and signed with it.
C17_Witness ==
    /\ op = "close" /\ did = <<"sync">>
    /\ keys_made = 2
    /\ public_key_bytes = 1
    /\ public_key_file = 2

\* An existing declaration source has a later mtime than the cache file.
SourceIsNewer ==
    \E i \in 1..NumSources :
        declarations[i] # <<>> /\ declarations[i][1] > cache_file[1]

\* C18: an open() without the clear flag that finds the cache file and returns:
\* if a source is newer than the file, the payload is regenerated from the
\* sources; if none is and the stored signature verifies, the stored payload is
\* kept and the file left as it is.  A read() right after an open() that
\* regenerated returns the mapping merged from the sources as they are.
C18_StaleCacheRegenerated ==
    /\ [][(cache_pc = "new" /\ op' = "open" /\ raised' = "none"
              /\ ~clear /\ cache_file # <<>>) =>
             IF SourceIsNewer
             THEN /\ did' = <<"regenerate", "sync">>
                  /\ cache' = dumps(Build)
             ELSE StoredRecordVerifies =>
                     /\ did' = <<>>
                     /\ cache' = SliceFrom(cache_file[2], SIGNATURE_SIZE_BYTES)
                     /\ cache_file' = cache_file]_allvars
    /\ [][(op = "open" /\ raised = "none" /\ did # <<>>
              /\ op' = "read" /\ arg' = <<>>) =>
             (raised' = "none" /\ ret' = <<Build>>)]_allvars

\* C18 witness: a source that existed was edited in a later mtime granule than
\* the cache file's; the open() regenerated and the payload holds the edit.
C18_Witness ==
    /\ op = "open" /\ raised = "none" /\ ~clear
    /\ did = <<"regenerate", "sync">>
    /\ nenv = 1
    /\ \E i \in 1..NumSources : declarations[i] = <<1, Content(i, 1)>>
    /\ cache = dumps(Build)

\* C19: an open() without the clear flag that finds a cache file whose
\* signature does not verify (a file shorter than a signature included), with
\* Spark.toml there: it regenerates and returns normally, holding a payload
\* that verifies under the public key it loaded.  A read() never returns the
\* data that was put into the file by tampering.
C19_TamperedCacheRegenerated ==
    /\ [][(cache_pc = "new" /\ op' = "open" /\ ~clear /\ cache_file # <<>>
              /\ ~StoredRecordVerifies /\ declarations[SparkToml] # <<>>) =>
             /\ raised' = "none"
             /\ cache_pc' = "open"
             /\ did' = <<"regenerate", "sync">>
             /\ verify(cache', signature', public_key_bytes')]_allvars
    /\ [](op = "read" => ret # <<TamperData>>)

\* The operation of this step has called regenerate().
Regenerating == \E i \in 1..Len(did') : did'[i] = "regenerate"

\* C20: a step in which regenerate() runs with Spark.toml absent raises
\* SystemExit and leaves the cache file as it was, written nowhere; the
\* process then terminates with the exit code for a missing Spark.toml (after
\* __exit__ when the exception leaves a `with` body).
C20_NoSparkTomlExits ==
    /\ [][(Regenerating /\ declarations[SparkToml] = <<>>) =>
             /\ raised' = "SystemExit"
             /\ ret' = <<>>
             /\ cache_file' = cache_file
             /\ \/ cache_pc' = "terminated" /\ cache_exit' = EXIT_SPARKFILE_UNAVAILABLE
                \/ cache_pc' = "exiting"]_allvars
    /\ [][(cache_pc = "exiting" /\ raised = "SystemExit") =>
             (cache_pc' = "terminated" /\ cache_exit' = EXIT_SPARKFILE_UNAVAILABLE)]_allvars

\* C20 witness: Spark.toml was deleted after the cache was made; a read() found
\* the cache file missing, regenerate() ended the process, and there is still
\* no cache file.
C20_Witness ==
    /\ op = "read" /\ did = <<"regenerate">>
    /\ raised = "SystemExit"
    /\ declarations[SparkToml] = <<>>
    /\ cache_pc = "terminated" /\ cache_exit = EXIT_SPARKFILE_UNAVAILABLE
    /\ cache_file = <<>>

\* The existing declaration sources that define key k.
DefinedIn(k) ==
    {i \in 1..NumSources : declarations[i] # <<>> /\ declarations[i][2][k] # 0}

\* The source of highest precedence among S: Spark.toml, then spark.patch.toml,
\* then the user's preferences, then the system's environment file.
HighestPrecedence(S) == CHOOSE i \in S : \A j \in S : j <= i

C22_ReadNotOpenFails ==
    [][(op' = "read" /\ ~opened) =>
          /\ raised' = "FileNotFoundError"
          /\ ret' = <<>>
          /\ did' = <<>>
          /\ cache' = cache
          /\ cache_file' = cache_file
          /\ ~opened']_allvars

\* C22 witness: a read() after close() raised; the payload that was closed is
\* still held, and still on disk.
C22_Witness ==
    /\ op = "read" /\ raised = "FileNotFoundError"
    /\ cache_pc = "closed" /\ ~opened
    /\ cache # <<>>
    /\ cache_file # <<>>
    /\ SliceFrom(cache_file[2], SIGNATURE_SIZE_BYTES) = cache

\* C23: is_cached() on an open object returns true exactly when the payload
\* in memory verifies against the signature and the public key in memory; when
\* it does not verify, the call returns false, raises nothing, and there is no
\* cache file afterwards, whether or not there was one before.
C23_IsCachedDeletesQuietly ==
    [][(op' = "is_cached" /\ opened) =>
          /\ raised' = "none"
          /\ ret' = <<verify(cache, signature, public_key_bytes)>>
          /\ ~verify(cache, signature, public_key_bytes) => cache_file' = <<>>
      ]_allvars

\* C24: an is_cached() called right after an open() without the clear flag
\* that returned normally returns true, and the cache file is still there.
C24_CachedAfterOpen ==
    [][(op = "open" /\ raised = "none" /\ ~clear /\ cache_pc = "open"
           /\ op' = "is_cached") =>
          /\ raised' = "none"
          /\ ret' = <<TRUE>>
          /\ cache_file' # <<>>]_allvars

\* C25: a sync() (called by the caller, by close() or by __exit__) that finds
\* no private key in the key store makes one new key pair, puts its private
\* key in the key store and its public key in the public-key file, which
\* thereby changes; the signature it stores verifies over the payload under
\* the new pair, and the call raises nothing.
C25_SyncRegeneratesKeyPair ==
    [][(op' \in {"sync", "close", "__exit__"} /\ keyring = 0) =>
          /\ did' = <<"sync">>
          /\ keys_made' = keys_made + 1
          /\ keyring' = keys_made'
          /\ public_key_file' = keys_made'
          /\ public_key_file' # public_key_file
          /\ signature' = sign(cache', keyring')
          /\ verify(cache', signature', public_key_file')
          /\ cache_file' = <<clock, signature' \o cache'>>
          /\ raised' = IF op' = "__exit__" THEN raised ELSE "none"]_allvars

\* C25 witness: the caller's sync() found the key store empty and the
\* public-key file of an earlier pair; there is now a second pair, in both.
C25_Witness ==
    /\ op = "sync" /\ did = <<"sync">> /\ raised = "none"
    /\ keys_made = 2 /\ keyring = 2 /\ public_key_file = 2
    /\ public_key_bytes = 1
    /\ cache_file # <<>>
    /\ verify(cache, signature, public_key_file)

\* C26: the scope of a `with` ends in close(), whether the body ended or
\* raised: it runs sync() and marks the object closed, and the payload the
\* object held when the scope was left is the payload behind the signature in
\* the cache file afterwards.  An exception that leaves the body is followed
\* by __exit__ and by nothing else.
C26_ScopeExitSyncs ==
    /\ [][(op' \in {"close", "__exit__"}) =>
             /\ did' = <<"sync">>
             /\ ~opened'
             /\ cache' = cache
             /\ cache_file' # <<>>
             /\ Slice(cache_file'[2], 0, SIGNATURE_SIZE_BYTES) = signature'
             /\ SliceFrom(cache_file'[2], SIGNATURE_SIZE_BYTES) = cache]_allvars
    /\ [][cache_pc = "exiting" =>
             (op' = "__exit__" /\ cache_pc' \in {"closed", "terminated"})]_allvars

\* C26 witness: the body wrote data and then raised; __exit__ ran, and the
\* data written is the payload of the cache file.
C26_Witness ==
    /\ op = "__exit__" /\ raised \notin {"none", "SystemExit"}
    /\ cache_pc = "closed" /\ ~opened
    /\ expect # <<>>
    /\ cache = dumps(expect[1])
    /\ cache_file # <<>>
    /\ SliceFrom(cache_file[2], SIGNATURE_SIZE_BYTES) = cache

\* C27 as stated: when a scope has been left, the object has written the cache
\* file exactly once.
C27_PersistedOncePerUse ==
    op \in {"close", "__exit__"} => written = 1

\* C27, amended: when a scope has been left, the object has written the cache
\* file at least once, the last time in leaving; a use with an empty body has
\* written it once when open() found a cache to keep, and twice when open()
\* regenerated, since regenerate() ends in a sync() of its own.
C27_PersistedAtScopeExit ==
    /\ [](op \in {"close", "__exit__"} => (written >= 1 /\ did = <<"sync">>))
    /\ [][(op = "open" /\ raised = "none" /\ cache_pc = "open" /\ op' = "close") =>
             written' = IF \E i \in 1..Len(did) : did[i] = "regenerate"
                        THEN 2 ELSE 1]_allvars

\* C27 witness: open() regenerated, the body did nothing, and the scope was
\* left: the file was written twice.
C27_Witness ==
    /\ op = "close" /\ cache_pc = "closed"
    /\ nops = 0
    /\ written = 2
    /\ cache = dumps(Build)

\* C28: verify() returns a boolean whatever it is given: true for a payload,
\* the signature sign() made for it and the public key of the signing pair;
\* false when one of the three was replaced, be it by that of another pair or
\* by something malformed (no key at all, bytes that are no key, a signature of
\* another length).
C28_VerifyReturnsBoolean ==
    crypto_pc = "verified" =>
        /\ crypto_result \in {"True", "False"}
        /\ crypto_result = "True" <=>
              <<crypto_payload, crypto_key, crypto_signature>> = crypto_pair

\* The bytes of chunks cs, from chunk i on, up to the first sentinel chunk.
RECURSIVE UpToSentinel(_, _)
UpToSentinel(cs, i) ==
    IF i > Len(cs) \/ cs[i] = EOF THEN <<>>
    ELSE cs[i] \o UpToSentinel(cs, i + 1)

\* The bytes written to the pipe before the sentinel chunk (all of them when
\* no sentinel was written).
BeforeSentinel == UpToSentinel(tee_sent, 1)

\* b is the beginning of c.
StartsWith(c, b) == Len(b) <= Len(c) /\ SubSeq(c, 1, Len(b)) = b

\* C29: what the helper has written to its standard output is, at any time,
\* the beginning of the bytes sent before the sentinel chunk, so neither the
\* sentinel nor anything after it is ever written; and when the helper has
\* returned, its standard output and the log file both hold exactly the bytes
\* sent before the sentinel, and its exit code is 0.
C29_TeeCopiesUntilSentinel ==
    /\ StartsWith(BeforeSentinel, tee_stdout)
    /\ tee_pc = "exited" =>
          /\ tee_stdout = BeforeSentinel
          /\ tee_logfile = BeforeSentinel
          /\ tee_exit = <<0>>

\* C30: while the helper runs, and when it has been terminated, the log file
\* on disk holds every line the helper has consumed and echoed so far.
C30_LogKeepsUp ==
    tee_pc \in {"running", "killed"} => tee_logfile = tee_stdout

\* C31: every pair as_completed() has yielded carries the pid of a child that
\* start() launched, no pid is yielded twice, and a yielded pid is no longer in
\* the table; and the tee helper is waited for by shutdown() alone: while
\* children are tracked, the helper is never reaped except by a shutdown()
\* that empties the table, and reaping it raises nothing.
C31_ReapsOnlyTracked ==
    /\ [](\A i \in 1..Len(yielded) :
            /\ yielded[i][1] \in (1..Len(launched)) \ failed
            /\ yielded[i][1] \notin processes
            /\ \A j \in 1..Len(yielded) : yielded[j][1] = yielded[i][1] => j = i)
    /\ [][(processes # {} /\ tee = "running" /\ tee' = "exited") =>
             (processes' = {} /\ exc' = exc)]_allvars

\* The sentinel has been written to the pipe.
SentinelSent == \E i \in 1..Len(tee_sent) : tee_sent[i] = EOF

\* C32: once shutdown() has written the sentinel to the pipe, the helper
\* comes to an end (and shutdown()'s wait for it returns), whatever was written
\* to the pipe before, and whatever is written after.
C32_SentinelEndsTee ==
    SentinelSent ~> (tee_pc # "running")


\* C33: a launch failure inside (or outside) a scheduler scope ends the process
\* with the launch-failure exit code: when the process has been terminated by
\* the SystemExit that perror() raised for a failed launch, its exit code is
\* EXIT_NO_SUCH_SUBCOMMAND.
C33_LaunchFailureCodeKept ==
    (pc = "terminated" /\ exc = "SystemExit" /\ failed # {}) =>
        exitCode = EXIT_NO_SUCH_SUBCOMMAND

\* C34: when the caller has called shutdown() in the body (tee has exited) and
\* the body has ended without an error, with nothing queued or running, the
\* shutdown() of __exit__ returns: __exit__ neither raises nor terminates the
\* process nor blocks, the descriptors are restored and nothing is queued or
\* running.
C34_ExitAfterShutdown ==
    [][(/\ shut
        /\ tee = "exited"
        /\ exc = "none"
        /\ pc = "exit_drain"
        /\ subcommands = <<>>
        /\ processes = {}
        /\ pc' # "exit_drain") =>
           /\ pc' = "left"
           /\ exc' = "none"
           /\ fds' = "orig"
           /\ subcommands' = <<>>
           /\ processes' = {}]_vars


\* C35: an exit code of 0 is yielded only for a child that exited normally
\* with status 0, never for a child that a signal terminated.
C35_ZeroMeansNormalExit ==
    (reaped_result # <<>> /\ reaped_result[2] = 0) =>
        reaped_status = <<NormalExit(0)>>


\* C36: a read() that returns, on an opened cache whose file is there, changes
\* neither the payload in memory nor the cache file; and a read() that follows
\* a read() with the same arguments, both returning, returns the same value.
C36_ReadChangesNothing ==
    [][(op' = "read" /\ nops' = nops + 1 /\ opened /\ cache_file # <<>>
           /\ raised' = "none") =>
          /\ cache' = cache
          /\ cache_file' = cache_file
          /\ (op = "read" /\ arg = arg' /\ raised = "none") => ret' = ret]_allvars

============================================================================
